---- MODULE Spec2Model ----
(***************************************************************************)
(* HLS streaming stress test: the staggered launch, the periodic health    *)
(* sweep and the signal-driven shutdown of BrowserManager                  *)
(* (browser-manager.js), driven by main() of index.js, and the health      *)
(* classification of stream-monitor.js.                                    *)
(*                                                                         *)
(* The program is single-threaded and cooperative.  An `await` of a        *)
(* pending promise is a scheduling point: the code between two such awaits *)
(* of one async function is one atomic action, and at the await any other  *)
(* callback that is ready (a timer, a signal handler, another              *)
(* continuation) may run.  An `await` of a promise that is already settled *)
(* (a call that returned without suspending) resumes in the same turn of   *)
(* the event loop, before any other callback, and is not a scheduling      *)
(* point.                                                                  *)
(***************************************************************************)
EXTENDS Integers, Sequences, FiniteSets, Bags, TLC

\* ------------------------------------------------------------------ bounds
MaxCount == 2      \* largest session budget handed to startStaggeredLaunch
MaxTicks == 2      \* polling sweeps that may be in progress at the same time
MaxTime == 2       \* largest playback position of a probe snapshot
MaxEvents == 1     \* largest stalled/buffering event count of a snapshot
MaxText == 2       \* longest text of a flag, an environment variable or an answer

VARIABLES
  pc,                  \* position of main(): "start", "speedtest", "running", "exited"
  exitCode,            \* argument of process.exit, -1 while the process runs
  exitedBy,            \* the signal whose handler called process.exit, or "none"
  streamUrl,           \* flags.url || config.streamUrl
  count,               \* maxBrowsers handed to startStaggeredLaunch
  i,                   \* loop variable of startStaggeredLaunch
  lpc,                 \* position of startStaggeredLaunch
  lstep,               \* the await launchBrowser is suspended at (index in LaunchSteps)
  result,              \* what the pending launchBrowser promise settled with
  browsers,            \* this.browsers
  pages,               \* this.pages
  detachedPages,       \* the array this.pages referred to before shutdown replaced it
  stats,               \* this.stats
  isShuttingDown,      \* this.isShuttingDown
  healthCheckInterval, \* this.healthCheckInterval is set
  healthTimer,         \* the setTimeout of main() is pending
  ticks,               \* the polling sweeps in progress (a bag: their order is immaterial)
  sdPc,                \* position of the shutdown() call that passed the guard
  sdIdx,               \* position of its for..of over this.browsers
  closed,              \* its local counter `closed`
  closedReports,       \* the "Closed x/y browsers" lines printed
  browserState,        \* per launch index: "none", "open", "closed"
  closeCalls,          \* the browsers close() was called on, in order
  handlers,            \* the signal handlers that are suspended at `await shutdown()`
  attempts,            \* the indices launchBrowser was called with, in order
  returned,            \* number of launchBrowser calls that have returned
  lastResult,          \* what the latest of them did and returned
  emitted,             \* number of onProgress events
  lastProgress,        \* the latest of them
  summaries,           \* the statistics printSummary printed
  sweepEndStats,       \* the statistics at the moment the teardown sweep finished
  health,              \* stream-monitor: input and output of the last getHealth call
  budget,              \* index.js: inputs and result of the choice of maxBrowsers
  speed,               \* speedtest.js: position and result of runSpeedTest
  carried,             \* the statistics as they were when the last progress event was sent
  probe                \* stream-monitor: the page of injectMonitor and its window._streamHealth

vars == <<pc, exitCode, exitedBy, streamUrl, count, i, lpc, lstep, result, browsers,
          pages, detachedPages, stats, isShuttingDown, healthCheckInterval,
          healthTimer, ticks, sdPc, sdIdx, closed, closedReports, browserState,
          closeCalls, handlers, attempts, returned, lastResult, emitted, lastProgress, summaries,
          sweepEndStats, health, budget, speed, carried, probe>>

mainVars == <<pc, exitCode, exitedBy, streamUrl, count, budget, speed>>
launchVars == <<i, lpc, lstep, result, attempts, returned, lastResult, emitted, lastProgress>>
shutdownVars == <<sdPc, sdIdx, closed, closedReports, closeCalls, sweepEndStats>>

\* --------------------------------------------------------------- helpers
Range(s) == {s[k] : k \in DOMAIN s}

IsPrefix(s, t) == Len(s) <= Len(t) /\ \A k \in DOMAIN s : s[k] = t[k]

NoResult == [settled |-> "pending", success |-> FALSE, error |-> "none"]

NoLaunch == [index |-> 0, threw |-> "none", playing |-> FALSE, value |-> NoResult]

NoProgress == [current |-> 0, total |-> 0, success |-> FALSE, error |-> "none"]

NoCarried == [sent |-> FALSE]

\* ------------------------------------------------ stream-monitor.js
\* The messages the in-page error list can hold (injectMonitor).
ErrorMessages == {"No video element found", "Unknown error"}

ErrorLists == {<<>>} \cup {<<m>> : m \in ErrorMessages}

\* window._streamHealth as page.evaluate returns it.
Snapshots ==
  [isPlaying : BOOLEAN, currentTime : 0..MaxTime, lastTime : 0..MaxTime,
   stalledCount : 0..MaxEvents, bufferingCount : 0..MaxEvents,
   errors : ErrorLists, readyState : {2, 3}]

NoSnapshot ==
  [isPlaying |-> FALSE, currentTime |-> 0, lastTime |-> 0, stalledCount |-> 0,
   bufferingCount |-> 0, errors |-> <<>>, readyState |-> 2]

\* What `await page.evaluate(() => window._streamHealth)` can do: return the
\* state, return undefined (state absent), or throw.
ProbeReads ==
  {[kind |-> "ok", state |-> s, message |-> "none"] : s \in Snapshots}
    \cup {[kind |-> "absent", state |-> NoSnapshot, message |-> "none"],
          [kind |-> "throws", state |-> NoSnapshot, message |-> "Target closed"]}

\* A failed read reported under the text of the absent state, whatever the
\* exception said.
UnreadableOneText(message) ==
  [isPlaying |-> FALSE, currentTime |-> 0, stalledCount |-> 0, bufferingCount |-> 0,
   errors |-> <<"Monitor not initialized">>, healthy |-> FALSE]

\* A failed read reported with an empty error list.
UnreadableUnlisted(message) ==
  [isPlaying |-> FALSE, currentTime |-> 0, stalledCount |-> 0, bufferingCount |-> 0,
   errors |-> <<>>, healthy |-> FALSE]

Unreadable(message) ==
  [isPlaying |-> FALSE, currentTime |-> 0, stalledCount |-> 0, bufferingCount |-> 0,
   errors |-> <<message>>, healthy |-> FALSE]

\* A frozen position taken for an advancing one.
timeNotGoingBack(h) == h.currentTime >= h.lastTime

timeAdvancing(h) == h.currentTime > h.lastTime

Healthy(h) == h.isPlaying /\ timeAdvancing(h) /\ Len(h.errors) = 0

getHealth(read) ==
  IF read.kind = "throws" THEN Unreadable(read.message)
  ELSE IF read.kind = "absent" THEN Unreadable("Monitor not initialized")
  ELSE [isPlaying |-> read.state.isPlaying, currentTime |-> read.state.currentTime,
        lastTime |-> read.state.lastTime, stalledCount |-> read.state.stalledCount,
        bufferingCount |-> read.state.bufferingCount, errors |-> read.state.errors,
        readyState |-> read.state.readyState, healthy |-> Healthy(read.state)]

\* The three-way classification of the polling sweep.
Classify(h) ==
  IF h.healthy THEN "healthy" ELSE IF Len(h.errors) > 0 THEN "errors" ELSE "buffering"

NoHealthCall == [called |-> FALSE]

NoProbe == [installed |-> FALSE]

\* What a probe read of the fleet's sweep can return: one read of each shape.
SweepReads ==
  {r \in ProbeReads :
     r.kind = "ok" => /\ r.state.stalledCount = 0 /\ r.state.bufferingCount = 0
                      /\ r.state.readyState = 3
                      /\ r.state.currentTime = 1 /\ r.state.lastTime \in {0, 1}
                      /\ r.state.errors \in {<<>>, <<"Unknown error">>}}

\* ------------------------------------------------ JavaScript values
\* A text is a sequence of characters; a flag or an environment variable that
\* was not given is undefined.
Undefined == [defined |-> FALSE, text |-> <<>>]

Text(s) == [defined |-> TRUE, text |-> s]

TextsOver(chars) == UNION {[1..n -> chars] : n \in 0..MaxText}

\* undefined and the empty string are falsy, every other string is truthy.
TruthyText(o) == o.defined /\ o.text # <<>>

\* A number (NaN included) or null.
Num(v) == [t |-> "number", nan |-> FALSE, v |-> v]

NaN == [t |-> "number", nan |-> TRUE, v |-> 0]

Null == [t |-> "null", nan |-> FALSE, v |-> 0]

\* null, NaN and 0 are falsy, every other number is truthy.
Truthy(x) == x.t = "number" /\ ~x.nan /\ x.v # 0

Digits == {"0", "2", "5"}

DigitValue(c) == IF c = "0" THEN 0 ELSE IF c = "2" THEN 2 ELSE 5

RECURSIVE DigitsPrefixLen(_)
DigitsPrefixLen(s) ==
  IF s = <<>> \/ s[1] \notin Digits THEN 0 ELSE 1 + DigitsPrefixLen(Tail(s))

\* The value of the first n characters of s, all digits, read in base 10.
RECURSIVE DecimalValue(_, _)
DecimalValue(s, n) ==
  IF n = 0 THEN 0 ELSE 10 * DecimalValue(s, n - 1) + DigitValue(s[n])

Unsigned(s) == IF s # <<>> /\ s[1] = "-" THEN Tail(s) ELSE s

Sign(s) == IF s # <<>> /\ s[1] = "-" THEN -1 ELSE 1

\* parseInt(s, 10): an optional sign and the longest run of digits after it;
\* NaN when there is no digit.  What follows the digits is ignored.
parseInt(s) ==
  LET n == DigitsPrefixLen(Unsigned(s))
  IN IF n = 0 THEN NaN ELSE Num(Sign(s) * DecimalValue(Unsigned(s), n))

RECURSIVE Power10(_)
Power10(n) == IF n = 0 THEN 1 ELSE 10 * Power10(n - 1)

\* parseFloat(s): an optional sign, digits, and an optional fraction; NaN when
\* neither part has a digit.  The value is held in thousandths, v = 1000 * x.
parseFloat(s) ==
  LET u == Unsigned(s)
      n == DigitsPrefixLen(u)
      rest == SubSeq(u, n + 1, Len(u))
      f == IF rest # <<>> /\ rest[1] = "." THEN DigitsPrefixLen(Tail(rest)) ELSE 0
      kept == IF f > 3 THEN 3 ELSE f
      whole == DecimalValue(u, n)
      fraction == IF f = 0 THEN 0
                  ELSE DecimalValue(Tail(rest), kept) * Power10(3 - kept)
  IN IF n + f = 0 THEN NaN ELSE Num(Sign(s) * (1000 * whole + fraction))

\* ------------------------------------------------ speedtest.js
\* A rate that need not be a whole number: num / den.
Whole(n) == [num |-> n, den |-> 1]

Half(n) == IF n % 2 = 0 THEN [num |-> n \div 2, den |-> 1] ELSE [num |-> n, den |-> 2]

\* Math.round of a non-negative num / den.
Round(num, den) == (2 * num + den) \div (2 * den)

NoEstimate == [downloadKbps |-> 0, uploadKbps |-> Whole(0), ping |-> 0]

\* Line 98: the documented fallback.
Fallback == [downloadKbps |-> 50000, uploadKbps |-> Whole(25000), ping |-> 20]

\* An entry check that lets a speed of zero through.
NegativeEntry(mbps) == mbps.nan \/ mbps.v < 0

\* Line 96: isNaN(mbps) || mbps <= 0.
InvalidEntry(mbps) == mbps.nan \/ mbps.v <= 0

\* Lines 95-103: what promptManualSpeed resolves with for an answer.
ManualEstimate(answer) ==
  LET mbps == parseFloat(answer)
  IN IF InvalidEntry(mbps) THEN Fallback
     ELSE LET downloadKbps == Round(mbps.v, 1)
          IN [downloadKbps |-> downloadKbps, uploadKbps |-> Half(downloadKbps),
              ping |-> 20]

\* Lines 63-72: the estimate from a measured rate (bytes per second) and the
\* duration of the latency request.
MeasuredEstimate(bytesPerSecond, ping) ==
  LET downloadKbps == Round(bytesPerSecond * 8, 1000)
  IN [downloadKbps |-> downloadKbps, uploadKbps |-> Whole(Round(downloadKbps, 2)),
      ping |-> ping]

\* What the answer typed at the prompt can be.
AnswerChars == Digits \cup {".", "-", "x"}

\* What a download can be rejected with (downloadTest).
DownloadErrors == {"HTTP 500", "Download timeout", "ECONNRESET"}

\* Measured rates in bytes per second, and durations of the latency request.
MeasuredRates == {0, 62, 63, 125000, 12500000}

MeasuredPings == {0, 35}

\* runSpeedTest has not been called.
NoSpeed == [pc |-> "idle"]

\* A capacity estimate without its minimum.
NoMinimum(n) == n

\* Line 130: Math.max(1, maxBrowsers).
AtLeastOne(n) == IF n > 1 THEN n ELSE 1

\* calculateMaxBrowsers, with the safety margin in percent (0.8 is 80) and
\* whole-number arithmetic: floor(d * m / b) is (d * percent) \div (100 * b).
calculateMaxBrowsers(downloadKbps, streamBitrateKbps, percent) ==
  LET maxBrowsers == (downloadKbps * percent) \div (100 * streamBitrateKbps)
  IN AtLeastOne(maxBrowsers)

\* ------------------------------------------------ config.js, index.js: the budget
\* config.js line 17: MAX_BROWSERS parsed when it is a non-empty string.
configMaxBrowsers(env) == IF TruthyText(env) THEN parseInt(env.text) ELSE Null

\* index.js lines 84-97: --max, else the configured limit, else the estimate.
chooseMaxBrowsers(flagMax, configMax, estimate) ==
  IF TruthyText(flagMax) THEN parseInt(flagMax.text)
  ELSE IF Truthy(configMax) THEN configMax
  ELSE Num(estimate)

\* confirmWithCustom (lines 199-226) for a trimmed, lower-case answer.
confirmWithCustom(answer) ==
  IF answer \in {<<"y">>, <<"y", "e", "s">>} THEN "yes"
  ELSE IF answer \in {<<"n">>, <<"n", "o">>, <<>>} THEN "no"
  ELSE LET customNumber == parseInt(answer)
       IN IF ~customNumber.nan /\ customNumber.v > 0 THEN "custom" ELSE "no"

\* What --max and MAX_BROWSERS can hold, and what is typed at the confirmation.
LimitChars == {"0", "2", "-", "x"}

LimitTexts == {Undefined} \cup {Text(s) : s \in TextsOver(LimitChars)}

ConfirmAnswers == {<<"y">>, <<"n">>, <<>>, <<"2">>, <<"0">>, <<"x">>}

\* Download rates (Kbps), stream bitrates (Kbps) and safety margins (percent).
Downloads == {1, 2799, 2800, 3500, 7000, 100000}

Bitrates == {1, 2800, 5000}

Margins == {1, 50, 80, 100}

\* The choice of maxBrowsers has not been reached.
NoBudget == [stage |-> "none"]

\* What the choice of maxBrowsers depends on: --max, MAX_BROWSERS, the measured
\* download rate, the stream bitrate and the safety margin.
BudgetInput(flagMax, envMax, downloadKbps, streamBitrateKbps, margin) ==
  [stage |-> "input", flagMax |-> flagMax, envMax |-> envMax,
   downloadKbps |-> downloadKbps, streamBitrateKbps |-> streamBitrateKbps,
   margin |-> margin, maxBrowsers |-> Null]

\* ------------------------------------------------ browser-manager.js
ZeroStats == [launched |-> 0, healthy |-> 0, buffering |-> 0, errors |-> 0]

\* The awaits of launchBrowser, in order.
LaunchSteps == <<"chromium.launch", "newContext", "newPage", "goto",
                 "injectMonitor", "attemptPlay", "waitForPlayback">>

\* waitForPlayback catches every failure and returns false; every other awaited
\* call of launchBrowser can reject.
CanThrow(step) == LaunchSteps[step] # "waitForPlayback"

\* A result that drops the advisory error.
SucceededSilently(playing) ==
  [settled |-> "fulfilled", success |-> TRUE, error |-> "none"]

Succeeded(playing) ==
  IF playing THEN [settled |-> "fulfilled", success |-> TRUE, error |-> "none"]
  ELSE [settled |-> "fulfilled", success |-> TRUE, error |-> "Video not playing yet"]

\* A launchBrowser without its try/catch: the rejection reaches the loop.
Uncaught(message) == [settled |-> "rejected", success |-> FALSE, error |-> message]

\* catch (error) of launchBrowser: the promise is fulfilled, never rejected.
Caught(message) == [settled |-> "fulfilled", success |-> FALSE, error |-> message]

\* A loop that ignores the shutdown flag.
LoopNeverBreaks(shuttingDown) == FALSE

\* Line 85: the loop leaves when a shutdown is under way.
LoopBreaks(shuttingDown) == shuttingDown

\* A loop that does not advance.
SameIndex(j) == j

\* Line 84: i++.
NextIndex(j) == j + 1

\* Top of the for loop for index j of n: leave, or call launchBrowser(j + 1),
\* which runs to its first await (chromium.launch).
LoopIteration(j, n) ==
  /\ i' = j
  /\ IF j < n /\ ~LoopBreaks(isShuttingDown)
       THEN /\ lpc' = "launch"
            /\ lstep' = 1
            /\ attempts' = Append(attempts, j + 1)
       ELSE /\ lpc' = "done"
            /\ lstep' = 0
            /\ attempts' = attempts

\* An await of launchBrowser before waitForPlayback resolves.
LaunchStepOk ==
  /\ pc = "running" /\ lpc = "launch" /\ CanThrow(lstep)
  /\ lstep' = lstep + 1
  /\ browserState' = IF LaunchSteps[lstep] = "chromium.launch"
                       THEN [browserState EXCEPT ![i + 1] = "open"]
                       ELSE browserState
  /\ UNCHANGED <<mainVars, i, lpc, result, attempts, returned, lastResult, emitted, lastProgress, browsers, pages,
                 detachedPages, stats, isShuttingDown, healthCheckInterval, healthTimer,
                 ticks, shutdownVars, handlers, summaries, health, carried, probe>>

\* An await of launchBrowser rejects: the catch block.
LaunchStepThrows ==
  /\ pc = "running" /\ lpc = "launch" /\ CanThrow(lstep)
  /\ stats' = [stats EXCEPT !.errors = @ + 1]
  /\ result' = Caught(LaunchSteps[lstep])
  /\ returned' = returned + 1
  /\ lastResult' = [index |-> i + 1, threw |-> LaunchSteps[lstep], playing |-> FALSE,
                    value |-> result']
  /\ lpc' = "returned"
  /\ UNCHANGED <<mainVars, i, lstep, attempts, emitted, lastProgress, browsers, pages, detachedPages,
                 isShuttingDown, healthCheckInterval, healthTimer, ticks, shutdownVars,
                 browserState, handlers, summaries, health, carried, probe>>

\* A launch that counts the playing stream and leaves launched alone.
HealthyWithoutLaunched(st, playing) ==
  [st EXCEPT !.healthy = IF playing THEN @ + 1 ELSE @]

\* A launch counted only when its stream plays.
LaunchedIfPlaying(st, playing) ==
  [st EXCEPT !.launched = IF playing THEN @ + 1 ELSE @,
             !.healthy = IF playing THEN @ + 1 ELSE @]

\* Lines 62-66: launched++, and healthy++ when playback was confirmed.
Launched(st, playing) ==
  [st EXCEPT !.launched = @ + 1, !.healthy = IF playing THEN @ + 1 ELSE @]

\* waitForPlayback returns: the session is tracked and the call returns.
LaunchWaitReturns ==
  /\ pc = "running" /\ lpc = "launch" /\ ~CanThrow(lstep)
  /\ \E playing \in BOOLEAN :
       /\ stats' = Launched(stats, playing)
       /\ result' = Succeeded(playing)
       /\ lastResult' = [index |-> i + 1, threw |-> "none", playing |-> playing,
                         value |-> result']
  /\ returned' = returned + 1
  /\ browsers' = Append(browsers, i + 1)
  /\ pages' = Append(pages, i + 1)
  /\ lpc' = "returned"
  /\ UNCHANGED <<mainVars, i, lstep, attempts, emitted, lastProgress, detachedPages, isShuttingDown,
                 healthCheckInterval, healthTimer, ticks, shutdownVars, browserState,
                 handlers, summaries, health, carried, probe>>

\* A loop that waits after every launch, the last one too.
SleepsAfterEach(j, n, shuttingDown) == ~shuttingDown

\* Line 100: the stagger delay is awaited except after the last launch and
\* except when a shutdown is under way.
SleepsAfter(j, n, shuttingDown) == j < n - 1 /\ ~shuttingDown

\* startStaggeredLaunch resumes with the result: the progress event, then
\* the stagger delay or the next iteration.
LaunchResumption ==
  /\ pc = "running" /\ lpc = "returned"
  /\ IF result.settled = "rejected"
       THEN /\ lpc' = "rejected"
            /\ UNCHANGED <<i, lstep, attempts, emitted, lastProgress>>
       ELSE /\ emitted' = emitted + 1
            /\ lastProgress' = [current |-> i + 1, total |-> count,
                                success |-> result.success, error |-> result.error]
            /\ IF SleepsAfter(i, count, isShuttingDown)
                 THEN /\ lpc' = "sleep"
                      /\ UNCHANGED <<i, lstep, attempts>>
                 ELSE LoopIteration(NextIndex(i), count)
  /\ result' = NoResult
  /\ UNCHANGED <<mainVars, returned, lastResult, browsers, pages, detachedPages, stats, isShuttingDown,
                 healthCheckInterval, healthTimer, ticks, shutdownVars, browserState,
                 handlers, summaries, health, probe>>

LaunchResumes == LaunchResumption /\ UNCHANGED carried

\* Line 95: the event's stats field is this.stats itself, not a copy, so what a
\* holder of the last event reads in it is what the manager's object holds.
CarriedStats == stats

\* The same step with the statistics at the time of the event on record.
LaunchResumesObserved ==
  /\ LaunchResumption
  /\ carried' = IF result.settled = "rejected" THEN carried
                ELSE [sent |-> TRUE, then |-> stats]

\* The stagger delay is over.
SleepReturns ==
  /\ pc = "running" /\ lpc = "sleep"
  /\ LoopIteration(NextIndex(i), count)
  /\ UNCHANGED <<mainVars, result, returned, lastResult, emitted, lastProgress, browsers, pages, detachedPages,
                 stats, isShuttingDown, healthCheckInterval, healthTimer, ticks,
                 shutdownVars, browserState, handlers, summaries, health, carried, probe>>

\* --- the polling sweep (startHealthChecks)
\* The array a sweep in progress iterates: the one this.pages referred to when
\* the sweep started.  shutdown() is the only code that replaces this.pages, and
\* no sweep starts once a shutdown is under way.
TickArray == IF sdPc = "done" THEN detachedPages ELSE pages

NewTick == [k |-> 1, healthy |-> 0, buffering |-> 0, errors |-> 0]

\* Lines 121-127: the local counter the classified session goes to.
Counted(t, class) ==
  [t EXCEPT !.healthy = IF class = "healthy" THEN @ + 1 ELSE @,
            !.errors = IF class = "errors" THEN @ + 1 ELSE @,
            !.buffering = IF class = "buffering" THEN @ + 1 ELSE @]

\* A sweep that adds its counts to the previous ones.
Accumulated(st, t) ==
  [st EXCEPT !.healthy = @ + t.healthy, !.buffering = @ + t.buffering,
             !.errors = @ + t.errors]

\* A write that is interrupted after its first assignment.
WrittenInPart(st, t) == [st EXCEPT !.healthy = t.healthy]

\* Lines 133-135: the three counters are overwritten, launched is kept.
\* A write that replaces the whole object by the three counts of the sweep.
WrittenWithoutLaunched(st, t) ==
  [launched |-> 0, healthy |-> t.healthy, buffering |-> t.buffering,
   errors |-> t.errors]

\* An error count that a later sweep can raise but never lower.
WrittenErrorsKept(st, t) ==
  [st EXCEPT !.healthy = t.healthy, !.buffering = t.buffering,
             !.errors = IF @ > t.errors THEN @ ELSE t.errors]

Written(st, t) ==
  [st EXCEPT !.healthy = t.healthy, !.buffering = t.buffering, !.errors = t.errors]

\* The interval callback runs: it returns at once during a shutdown, writes
\* zeros at once when nothing is tracked, and else awaits the first probe read.
TickStarts ==
  /\ pc = "running" /\ healthCheckInterval /\ ~isShuttingDown
  /\ BagCardinality(ticks) < MaxTicks
  /\ IF pages = <<>>
       THEN stats' = Written(stats, NewTick) /\ ticks' = ticks
       ELSE stats' = stats /\ ticks' = ticks (+) SetToBag({NewTick})
  /\ UNCHANGED <<mainVars, launchVars, browsers, pages, detachedPages, isShuttingDown,
                 healthCheckInterval, healthTimer, shutdownVars, browserState, handlers, summaries, health, carried, probe>>

\* What the probe read of a page can return; a page of a closed browser cannot
\* be read any more.
ReadsOf(page) ==
  {r \in SweepReads : browserState[page] = "closed" => r.kind = "throws"}

\* A probe read of sweep t returns and is classified: the session is counted,
\* and the sweep awaits the next read or, past the end of the array, writes
\* the statistics.
ReadReturns(tick, class) ==
  LET others == ticks (-) SetToBag({tick})
      counted == Counted(tick, class)
  IN IF tick.k < Len(TickArray)
       THEN /\ ticks' = others (+) SetToBag({[counted EXCEPT !.k = @ + 1]})
            /\ stats' = stats
       ELSE /\ ticks' = others
            /\ stats' = Written(stats, counted)

TickResumes(tick) ==
  /\ pc = "running"
  /\ \E class \in {Classify(getHealth(r)) : r \in ReadsOf(TickArray[tick.k])} :
       ReadReturns(tick, class)
  /\ UNCHANGED <<mainVars, launchVars, browsers, pages, detachedPages, isShuttingDown,
                 healthCheckInterval, healthTimer, shutdownVars, browserState, handlers, summaries, health, carried, probe>>

\* The same step with the read and what getHealth made of it on record.
TickResumesObserved(tick) ==
  /\ pc = "running"
  /\ \E r \in ReadsOf(TickArray[tick.k]) :
       /\ ReadReturns(tick, Classify(getHealth(r)))
       /\ health' = [called |-> TRUE, read |-> r, out |-> getHealth(r)]
  /\ UNCHANGED <<mainVars, launchVars, browsers, pages, detachedPages, isShuttingDown,
                 healthCheckInterval, healthTimer, shutdownVars, browserState, handlers,
                 summaries, carried, probe>>

\* --- shutdown()
\* A shutdown without its guard.
ShutdownAlwaysRuns == FALSE

\* Line 157: a call made while a shutdown is under way, or after one, returns.
ShutdownReturnsAtOnce == isShuttingDown

\* The for..of over this.browsers at position k with c browsers closed: call
\* close() on the next browser, or, past the end, report and empty the lists.
Sweep(k, c) ==
  IF k <= Len(browsers)
    THEN /\ sdPc' = "sweep"
         /\ sdIdx' = k
         /\ closed' = c
         /\ closeCalls' = Append(closeCalls, browsers[k])
         /\ UNCHANGED <<closedReports, browsers, pages, detachedPages, sweepEndStats>>
    ELSE /\ sdPc' = "done"
         /\ sdIdx' = k
         /\ closed' = c
         /\ closedReports' = Append(closedReports, [closed |-> c, total |-> Len(browsers)])
         /\ browsers' = <<>>
         /\ detachedPages' = pages
         /\ pages' = <<>>
         /\ sweepEndStats' = stats
         /\ closeCalls' = closeCalls

NoHandler == [sig |-> "none", state |-> "none", calledAt |-> "none"]

\* --- index.js: the SIGINT and SIGTERM handlers
\* Whether the handler of a signal prints the final summary (lines 52, 57-58).
PrintsSummary(sig) == sig = "SIGINT"

\* process.exit: the process ends, and with it every pending timer and every
\* suspended continuation (the launch loop, the sweeps, the handlers).
ProcessExits(code) ==
  /\ pc' = "exited"
  /\ exitCode' = code
  /\ healthTimer' = FALSE
  /\ ticks' = EmptyBag
  /\ handlers' = <<>>
  /\ lpc' = IF lpc \in {"idle", "done", "rejected"} THEN lpc ELSE "killed"
  /\ lstep' = 0
  /\ result' = NoResult

\* The rest of a handler after `await browserManager.shutdown()`.
Exits(h) ==
  /\ summaries' = IF PrintsSummary(h.sig) THEN Append(summaries, stats) ELSE summaries
  /\ exitedBy' = h
  /\ ProcessExits(0)

\* A signal arrives: its handler calls shutdown().  When shutdown() returns
\* without awaiting (the guard, or nothing to close) the handler goes on in the
\* same turn; else it is suspended until the teardown sweep has finished.
Signal(sig) ==
  /\ pc \in {"speedtest", "running"}
  /\ IF ShutdownReturnsAtOnce
       THEN /\ Exits([sig |-> sig, state |-> "ready", calledAt |-> sdPc])
            /\ UNCHANGED <<isShuttingDown, healthCheckInterval, shutdownVars,
                           browsers, pages, detachedPages>>
       ELSE /\ isShuttingDown' = TRUE
            /\ healthCheckInterval' = FALSE
            /\ Sweep(1, 0)
            /\ IF browsers = <<>>
                 THEN Exits([sig |-> sig, state |-> "ready", calledAt |-> sdPc])
                 ELSE /\ handlers' = Append(handlers, [sig |-> sig, state |-> "waiting",
                                                       calledAt |-> sdPc])
                      /\ UNCHANGED <<pc, exitCode, exitedBy, summaries, healthTimer,
                                     ticks, lpc, lstep, result>>
  /\ UNCHANGED <<streamUrl, count, i, attempts, returned, lastResult, emitted, lastProgress, stats, browserState,
                 health, budget, speed, carried, probe>>

\* A sweep that counts every close it attempted.
CountsAttempts(c, ok) == c + 1

\* Lines 166-171: closed++ only when close() returned; a throw is ignored.
ClosedAfter(c, ok) == IF ok THEN c + 1 ELSE c

\* browser.close() of the teardown sweep returns or throws; the sweep goes on.
CloseReturns(ok) ==
  /\ pc = "running" /\ sdPc = "sweep"
  /\ browserState' = IF ok THEN [browserState EXCEPT ![browsers[sdIdx]] = "closed"]
                     ELSE browserState
  /\ Sweep(sdIdx + 1, ClosedAfter(closed, ok))
  /\ handlers' = IF sdIdx + 1 <= Len(browsers) THEN handlers
                 ELSE [h \in DOMAIN handlers |->
                         IF handlers[h].state = "waiting"
                           THEN [handlers[h] EXCEPT !.state = "ready"]
                           ELSE handlers[h]]
  /\ UNCHANGED <<mainVars, launchVars, stats, isShuttingDown, healthCheckInterval,
                 healthTimer, ticks, summaries, health, carried, probe>>

\* The suspended handler resumes after the sweep: summary, process.exit(0).
HandlerResumes(h) ==
  /\ pc \in {"speedtest", "running"}
  /\ handlers[h].state = "ready"
  /\ Exits(handlers[h])
  /\ UNCHANGED <<streamUrl, count, i, attempts, returned, lastResult, emitted, lastProgress, browsers, pages,
                 detachedPages, stats, isShuttingDown, healthCheckInterval, shutdownVars,
                 browserState, health, budget, speed, carried, probe>>

\* --- index.js: main()
\* Line 62: flags.url || config.streamUrl ("" stands for not given).
resolveStreamUrl(flagUrl, configUrl) == IF flagUrl # "" THEN flagUrl ELSE configUrl

\* A check that lets an empty URL through.
UrlNeverMissing(url) == FALSE

\* Line 64: !streamUrl.
UrlMissing(url) == url = ""

\* Handlers are registered, then the stream URL is resolved.
MainStarts ==
  /\ pc = "start"
  /\ IF UrlMissing(streamUrl)
       THEN ProcessExits(1)
       ELSE /\ pc' = "speedtest"
            /\ UNCHANGED <<exitCode, healthTimer, ticks, handlers, lpc, lstep, result>>
  /\ UNCHANGED <<exitedBy, streamUrl, count, i, attempts, returned, lastResult, emitted, lastProgress, browsers,
                 pages, detachedPages, stats, isShuttingDown, healthCheckInterval,
                 shutdownVars, browserState, summaries, health, budget, speed, carried, probe>>

\* The budget is settled: startStaggeredLaunch is called (not awaited) and the
\* timer that starts the health checks is set.
MainLaunches ==
  /\ pc = "speedtest"
  /\ \E n \in 0..MaxCount :
       /\ count' = n
       /\ LoopIteration(0, n)
  /\ pc' = "running"
  /\ healthTimer' = TRUE
  /\ UNCHANGED <<exitCode, exitedBy, streamUrl, result, returned, lastResult, emitted, lastProgress, browsers,
                 pages, detachedPages, stats, isShuttingDown, healthCheckInterval, ticks,
                 shutdownVars, browserState, handlers, summaries, health, budget, speed, carried, probe>>

\* The timer fires: startHealthChecks sets the interval.
HealthTimerFires ==
  /\ pc = "running" /\ healthTimer
  /\ healthTimer' = FALSE
  /\ healthCheckInterval' = TRUE
  /\ UNCHANGED <<mainVars, launchVars, browsers, pages, detachedPages, stats,
                 isShuttingDown, ticks, shutdownVars, browserState, handlers,
                 summaries, health, carried, probe>>

\* ------------------------------------------------------- specification
InitManager ==
  /\ browsers = <<>> /\ pages = <<>> /\ detachedPages = <<>>
  /\ stats = ZeroStats
  /\ isShuttingDown = FALSE
  /\ healthCheckInterval = FALSE
  /\ i = 0 /\ lpc = "idle" /\ lstep = 0 /\ result = NoResult
  /\ ticks = EmptyBag
  /\ sdPc = "idle" /\ sdIdx = 0 /\ closed = 0 /\ closedReports = <<>>
  /\ sweepEndStats = ZeroStats
  /\ browserState = [b \in 1..MaxCount |-> "none"]
  /\ closeCalls = <<>>
  /\ attempts = <<>>
  /\ returned = 0 /\ lastResult = NoLaunch
  /\ emitted = 0 /\ lastProgress = NoProgress

InitProcess ==
  /\ pc = "start" /\ exitCode = -1 /\ exitedBy = NoHandler
  /\ count = 0
  /\ healthTimer = FALSE
  /\ handlers = <<>>
  /\ summaries = <<>>

Init ==
  /\ InitManager
  /\ InitProcess
  /\ streamUrl \in {resolveStreamUrl(flagUrl, configUrl) :
                       flagUrl, configUrl \in {"", "https://stream.example/live"}}
  /\ health = NoHealthCall
  /\ budget = NoBudget
  /\ speed = NoSpeed
  /\ carried = NoCarried /\ probe = NoProbe

Next ==
  \/ MainStarts
  \/ MainLaunches
  \/ HealthTimerFires
  \/ LaunchStepOk
  \/ LaunchStepThrows
  \/ LaunchWaitReturns
  \/ LaunchResumes
  \/ SleepReturns
  \/ TickStarts
  \/ \E tick \in BagToSet(ticks) : TickResumes(tick)
  \/ \E sig \in {"SIGINT", "SIGTERM"} : Signal(sig)
  \/ \E ok \in BOOLEAN : CloseReturns(ok)
  \/ \E h \in DOMAIN handlers : HandlerResumes(h)

Spec == Init /\ [][Next]_vars

\* getHealth as a function of what the probe read returned.
InitHealth ==
  /\ InitManager
  /\ InitProcess
  /\ streamUrl = "https://stream.example/live"
  /\ health \in {[called |-> FALSE, read |-> r, out |-> Unreadable("none")] :
                   r \in ProbeReads}
  /\ budget = NoBudget
  /\ speed = NoSpeed
  /\ carried = NoCarried /\ probe = NoProbe

GetHealthCall ==
  /\ ~health.called
  /\ health' = [health EXCEPT !.called = TRUE, !.out = getHealth(health.read)]
  /\ UNCHANGED <<mainVars, launchVars, browsers, pages, detachedPages, stats,
                 isShuttingDown, healthCheckInterval, healthTimer, ticks, shutdownVars,
                 browserState, handlers, summaries, carried, probe>>

NextHealth == GetHealthCall

SpecHealth == InitHealth /\ [][NextHealth]_vars

\* --- runSpeedTest on its own
processVars == <<pc, exitCode, exitedBy, streamUrl, count>>

managerVars == <<browsers, pages, detachedPages, stats, isShuttingDown,
                 healthCheckInterval, healthTimer, ticks, browserState, handlers,
                 summaries>>

InitSpeed ==
  /\ InitManager
  /\ InitProcess
  /\ streamUrl = "https://stream.example/live"
  /\ health = NoHealthCall
  /\ budget = NoBudget
  /\ speed = NoSpeed
  /\ carried = NoCarried /\ probe = NoProbe

\* runSpeedTest is called: it awaits the latency request.
SpeedTestStarts ==
  /\ speed.pc = "idle"
  /\ speed' = [pc |-> "ping", ping |-> 0, failure |-> "none", answer |-> Undefined,
               out |-> NoEstimate]
  /\ UNCHANGED <<processVars, budget, launchVars, managerVars, shutdownVars, health, carried, probe>>

\* The latency request is done: the 10 MB download is awaited.
PingResolves(ms) ==
  /\ speed.pc = "ping"
  /\ speed' = [speed EXCEPT !.pc = "download", !.ping = ms]
  /\ UNCHANGED <<processVars, budget, launchVars, managerVars, shutdownVars, health, carried, probe>>

\* The download is done: runSpeedTest returns the measured estimate.
DownloadResolves(bytesPerSecond) ==
  /\ speed.pc = "download"
  /\ speed' = [speed EXCEPT !.pc = "resolved",
                            !.out = MeasuredEstimate(bytesPerSecond, speed.ping)]
  /\ UNCHANGED <<processVars, budget, launchVars, managerVars, shutdownVars, health, carried, probe>>

\* Either request is rejected: the catch block returns promptManualSpeed(),
\* which asks its question.
DownloadRejects(error) ==
  /\ speed.pc \in {"ping", "download"}
  /\ speed' = [speed EXCEPT !.pc = "prompt", !.failure = error]
  /\ UNCHANGED <<processVars, budget, launchVars, managerVars, shutdownVars, health, carried, probe>>

\* The question is answered: promptManualSpeed resolves, and with it
\* runSpeedTest.
ManualAnswer(answer) ==
  /\ speed.pc = "prompt"
  /\ speed' = [speed EXCEPT !.pc = "resolved", !.answer = Text(answer),
                            !.out = ManualEstimate(answer)]
  /\ UNCHANGED <<processVars, budget, launchVars, managerVars, shutdownVars, health, carried, probe>>

NextSpeed ==
  \/ SpeedTestStarts
  \/ \E ms \in MeasuredPings : PingResolves(ms)
  \/ \E rate \in MeasuredRates : DownloadResolves(rate)
  \/ \E error \in DownloadErrors : DownloadRejects(error)
  \/ \E answer \in TextsOver(AnswerChars) : ManualAnswer(answer)

SpecSpeed == InitSpeed /\ [][NextSpeed]_vars

\* --- calculateMaxBrowsers on its own
InitCapacity ==
  /\ InitManager
  /\ InitProcess
  /\ streamUrl = "https://stream.example/live"
  /\ health = NoHealthCall
  /\ speed = NoSpeed
  /\ carried = NoCarried /\ probe = NoProbe
  /\ budget \in {BudgetInput(Undefined, Undefined, d, b, m) :
                   d \in Downloads, b \in Bitrates, m \in Margins}

CalculateCall ==
  /\ budget.stage = "input"
  /\ budget' = [budget EXCEPT
                  !.stage = "calculated",
                  !.maxBrowsers = Num(calculateMaxBrowsers(budget.downloadKbps,
                                                           budget.streamBitrateKbps,
                                                           budget.margin))]
  /\ UNCHANGED <<processVars, speed, launchVars, managerVars, shutdownVars, health, carried, probe>>

NextCapacity == CalculateCall

SpecCapacity == InitCapacity /\ [][NextCapacity]_vars

\* --- the choice of maxBrowsers in main()
InitBudget ==
  /\ InitManager
  /\ InitProcess
  /\ streamUrl = "https://stream.example/live"
  /\ health = NoHealthCall
  /\ speed = NoSpeed
  /\ carried = NoCarried /\ probe = NoProbe
  /\ budget \in {BudgetInput(f, e, d, 2800, 80) :
                   f \in LimitTexts, e \in LimitTexts, d \in {1, 100000}}

\* Lines 84-97.
BudgetChosen ==
  /\ budget.stage = "input"
  /\ budget' = [budget EXCEPT
                  !.stage = "chosen",
                  !.maxBrowsers =
                     chooseMaxBrowsers(budget.flagMax, configMaxBrowsers(budget.envMax),
                                       calculateMaxBrowsers(budget.downloadKbps,
                                                            budget.streamBitrateKbps,
                                                            budget.margin))]
  /\ UNCHANGED <<processVars, speed, launchVars, managerVars, shutdownVars, health, carried, probe>>

\* Lines 112-122: with --yes the choice stands; else the answer confirms it,
\* replaces it by a custom count or cancels the run.
BudgetConfirmed(yes, answer) ==
  /\ budget.stage = "chosen"
  /\ LET reply == IF yes THEN "yes" ELSE confirmWithCustom(answer)
     IN budget' = [budget EXCEPT
                     !.stage = IF reply = "no" THEN "cancelled" ELSE "confirmed",
                     !.maxBrowsers = IF reply = "custom" THEN parseInt(answer) ELSE @]
  /\ UNCHANGED <<processVars, speed, launchVars, managerVars, shutdownVars, health, carried, probe>>

NextBudget ==
  \/ BudgetChosen
  \/ \E yes \in BOOLEAN, answer \in ConfirmAnswers : BudgetConfirmed(yes, answer)

SpecBudget == InitBudget /\ [][NextBudget]_vars

\* --- the polling sweeps on their own: n sessions were launched, all with
\* success and h of them with playback confirmed, and the health checks run.
InitSweep ==
  \E n \in 0..MaxCount, h \in 0..MaxCount, playing \in BOOLEAN :
    /\ h <= n
    /\ playing => h >= 1
    /\ ~playing => h < n \/ n = 0
    /\ n = 0 => ~playing
    /\ pc = "running" /\ exitCode = -1 /\ exitedBy = NoHandler
    /\ streamUrl = "https://stream.example/live"
    /\ count = n /\ i = n /\ lpc = "done" /\ lstep = 0 /\ result = NoResult
    /\ attempts = [k \in 1..n |-> k]
    /\ returned = n /\ emitted = n
    /\ lastResult = IF n = 0 THEN NoLaunch
                    ELSE [index |-> n, threw |-> "none", playing |-> playing,
                          value |-> Succeeded(playing)]
    /\ lastProgress = IF n = 0 THEN NoProgress
                      ELSE [current |-> n, total |-> n, success |-> TRUE,
                            error |-> Succeeded(playing).error]
    /\ browsers = [k \in 1..n |-> k] /\ pages = [k \in 1..n |-> k]
    /\ detachedPages = <<>>
    /\ browserState = [b \in 1..MaxCount |-> IF b <= n THEN "open" ELSE "none"]
    /\ stats = [launched |-> n, healthy |-> h, buffering |-> 0, errors |-> 0]
    /\ isShuttingDown = FALSE
    /\ healthTimer = FALSE /\ healthCheckInterval = TRUE
    /\ ticks = EmptyBag
    /\ sdPc = "idle" /\ sdIdx = 0 /\ closed = 0 /\ closedReports = <<>>
    /\ closeCalls = <<>> /\ sweepEndStats = ZeroStats
    /\ handlers = <<>> /\ summaries = <<>>
    /\ health = NoHealthCall
    /\ budget = NoBudget
    /\ speed = NoSpeed
    /\ carried = NoCarried /\ probe = NoProbe

NextSweep ==
  \/ TickStarts
  \/ \E tick \in BagToSet(ticks) : TickResumesObserved(tick)

SpecSweep == InitSweep /\ [][NextSweep]_vars

\* --- the in-page probe of injectMonitor
\* What the page's video element can be: HAVE_NOTHING, HAVE_CURRENT_DATA or
\* HAVE_FUTURE_DATA, at a position.
Videos ==
  [paused : BOOLEAN, ended : BOOLEAN, readyState : {0, 2, 3}, currentTime : 0..MaxTime]

NoVideo == [paused |-> TRUE, ended |-> FALSE, readyState |-> 0, currentTime |-> 0]

\* Lines 12-21: window._streamHealth as injectMonitor creates it.
InitialHealth ==
  [isPlaying |-> FALSE, currentTime |-> 0, lastTime |-> 0, stalledCount |-> 0,
   bufferingCount |-> 0, errors |-> <<>>, readyState |-> 0]

\* A sampler that takes every stream that is not paused for a playing one.
PlayingUnlessPaused(video) == ~video.paused

\* Line 56: the flag the sampler computes from the element.
PlayingNow(video) == ~video.paused /\ ~video.ended /\ video.readyState > 2

\* Lines 52-57: what the interval callback makes of the state.
Sampled(state, video) ==
  [state EXCEPT !.lastTime = state.currentTime,
                !.currentTime = video.currentTime,
                !.readyState = video.readyState,
                !.isPlaying = PlayingNow(video)]

InitProbe ==
  /\ InitManager
  /\ InitProcess
  /\ streamUrl = "https://stream.example/live"
  /\ health = NoHealthCall
  /\ budget = NoBudget
  /\ speed = NoSpeed
  /\ carried = NoCarried
  /\ probe = NoProbe

ProbeFrame ==
  UNCHANGED <<processVars, budget, speed, launchVars, managerVars, shutdownVars, health,
              carried>>

\* The function injectMonitor evaluates in the page: with a video element it
\* installs the five listeners and the sampler, without one it records the
\* error and returns.
InjectMonitor(hasVideo, video) ==
  /\ ~probe.installed
  /\ probe' = IF hasVideo
                THEN [installed |-> TRUE, hasVideo |-> TRUE, listening |-> TRUE,
                      video |-> video, state |-> InitialHealth]
                ELSE [installed |-> TRUE, hasVideo |-> FALSE, listening |-> FALSE,
                      video |-> NoVideo,
                      state |-> [InitialHealth EXCEPT
                                   !.errors = <<"No video element found">>]]
  /\ ProbeFrame

\* The page gets a video element after the function has returned.
VideoAppears(video) ==
  /\ probe.installed /\ ~probe.hasVideo
  /\ probe' = [probe EXCEPT !.hasVideo = TRUE, !.video = video]
  /\ ProbeFrame

\* The element plays, pauses, ends, buffers or seeks.
VideoChanges(video) ==
  /\ probe.installed /\ probe.hasVideo
  /\ probe' = [probe EXCEPT !.video = video]
  /\ ProbeFrame

\* The element fires an event: its listener, if one was installed, runs.
VideoEvent(event) ==
  /\ probe.installed /\ probe.hasVideo
  /\ event = "waiting" => probe.state.bufferingCount < MaxEvents
  /\ event = "stalled" => probe.state.stalledCount < MaxEvents
  /\ event = "error" => Len(probe.state.errors) < MaxEvents
  /\ probe' =
       IF ~probe.listening THEN probe
       ELSE IF event = "playing" THEN [probe EXCEPT !.state.isPlaying = TRUE]
       ELSE IF event = "pause" THEN [probe EXCEPT !.state.isPlaying = FALSE]
       ELSE IF event = "waiting" THEN [probe EXCEPT !.state.bufferingCount = @ + 1]
       ELSE IF event = "stalled" THEN [probe EXCEPT !.state.stalledCount = @ + 1]
       ELSE [probe EXCEPT !.state.errors = Append(@, "Unknown error")]
  /\ ProbeFrame

\* The one-second interval callback.
Sample ==
  /\ probe.installed /\ probe.listening
  /\ probe' = [probe EXCEPT !.state = Sampled(probe.state, probe.video)]
  /\ ProbeFrame

NextProbe ==
  \/ \E hasVideo \in BOOLEAN, video \in Videos : InjectMonitor(hasVideo, video)
  \/ \E video \in Videos : VideoAppears(video)
  \/ \E video \in Videos : VideoChanges(video)
  \/ \E event \in {"playing", "pause", "waiting", "stalled", "error"} : VideoEvent(event)
  \/ Sample

SpecProbe == InitProbe /\ [][NextProbe]_vars

\* The program with the statistics of each progress event on record.
NextProgress ==
  \/ MainStarts
  \/ MainLaunches
  \/ LaunchStepOk
  \/ LaunchStepThrows
  \/ LaunchWaitReturns
  \/ LaunchResumesObserved
  \/ SleepReturns
  \/ HealthTimerFires
  \/ TickStarts
  \/ \E tick \in BagToSet(ticks) : TickResumes(tick)

SpecProgress == Init /\ [][NextProgress]_vars

\* The launch loop and the signal handlers, with the timer of the health
\* checks still pending: no step of the polling writes a variable of the loop
\* or of the shutdown.
NextLaunch ==
  \/ MainStarts
  \/ MainLaunches
  \/ LaunchStepOk
  \/ LaunchStepThrows
  \/ LaunchWaitReturns
  \/ LaunchResumes
  \/ SleepReturns
  \/ \E sig \in {"SIGINT", "SIGTERM"} : Signal(sig)
  \/ \E ok \in BOOLEAN : CloseReturns(ok)
  \/ \E h \in DOMAIN handlers : HandlerResumes(h)

SpecLaunch == Init /\ [][NextLaunch]_vars

\* ------------------------------------------------------------- claims
\* A step of startStaggeredLaunch or of the launchBrowser call it awaits.
LaunchLoopStep ==
  \/ LaunchStepOk \/ LaunchStepThrows \/ LaunchWaitReturns \/ LaunchResumes
  \/ SleepReturns

\* C1: without a shutdown request startStaggeredLaunch(N) calls launchBrowser
\* exactly N times, with the indices 1..N in this order, no index twice, and
\* a call starts only after the one before it has returned.
C1_LaunchOrder ==
  /\ \A k \in DOMAIN attempts : attempts[k] = k
  /\ Len(attempts) <= count
  /\ Len(attempts) - returned \in {0, 1}
  /\ pc # "exited" => (Len(attempts) = returned + 1 <=> lpc = "launch")
  /\ returned >= 1 => lastResult.index = returned
  /\ (lpc = "done" /\ ~isShuttingDown) => Len(attempts) = count /\ returned = count

C1_Witness ==
  /\ lpc = "done" /\ ~isShuttingDown
  /\ count = MaxCount /\ count >= 2
  /\ attempts = [k \in 1..count |-> k]
  /\ returned = count

\* C2: once isShuttingDown is true no further launchBrowser call is started,
\* whatever the loop was suspended at, and no step of the launch loop removes
\* a tracked session.
C2_NoLaunchAfterShutdown ==
  [][/\ isShuttingDown => attempts' = attempts
     /\ LaunchLoopStep => IsPrefix(browsers, browsers') /\ IsPrefix(pages, pages')]_vars

C2_Witness ==
  /\ isShuttingDown /\ lpc = "done"
  /\ Len(attempts) >= 1 /\ Len(attempts) < count
  /\ returned = Len(attempts)
  /\ Len(browsers) >= 1

\* C3: once shutdown() has completed, every browser a launchBrowser call
\* started is closed or was handed to the teardown sweep, and the tracked
\* lists are empty.
C3_AllReleased ==
  sdPc = "done" =>
    /\ browsers = <<>> /\ pages = <<>>
    /\ \A b \in 1..MaxCount : browserState[b] = "open" => b \in Range(closeCalls)

\* C4: an interrupt that arrives while a shutdown is under way starts no
\* second teardown sweep and does not make the process exit before the first
\* sweep has finished.
C4_SecondInterruptIgnored ==
  /\ Len(closedReports) <= 1
  /\ (pc = "exited" /\ exitedBy.calledAt = "sweep") => sdPc = "done"

\* C5: a shutdown() call made after a first one has completed changes
\* nothing: statistics, closed count, reports and tracked lists stay as they
\* are, and no browser is ever closed twice.
C5_ShutdownIdempotent ==
  /\ [](\A a, b \in DOMAIN closeCalls : a # b => closeCalls[a] # closeCalls[b])
  /\ [][(sdPc = "done" /\ exitedBy' # exitedBy /\ exitedBy'.calledAt = "done") =>
          UNCHANGED <<stats, closed, closedReports, browsers, pages, closeCalls,
                      browserState, isShuttingDown, sdPc>>]_vars

C5_Witness ==
  /\ exitedBy.calledAt = "done"
  /\ Len(closedReports) = 1 /\ closedReports[1].closed >= 1

\* C6: right after a polling sweep writes the statistics, healthy + buffering
\* + errors is at most the number of sessions tracked at that moment.
C6_SumWithinTracked ==
  [][(BagCardinality(ticks') < BagCardinality(ticks) /\ pc' = "running") =>
       stats'.healthy + stats'.buffering + stats'.errors <= Len(pages')]_vars

\* C7: getHealth reports a readable snapshot healthy exactly when isPlaying
\* holds, currentTime is strictly greater than lastTime and errors is empty.
C7_HealthyRule ==
  (health.called /\ health.read.kind = "ok") =>
    LET s == health.read.state
    IN /\ health.out.healthy <=>
            (s.isPlaying /\ s.currentTime > s.lastTime /\ s.errors = <<>>)
       /\ s.currentTime = s.lastTime => ~health.out.healthy
       /\ s.errors # <<>> => ~health.out.healthy

C7_Witness ==
  /\ health.called /\ health.read.kind = "ok"
  /\ health.read.state.isPlaying
  /\ health.read.state.currentTime = health.read.state.lastTime
  /\ health.read.state.errors = <<>>
  /\ ~health.out.healthy

\* C8: a step of launchBrowser that throws yields {success: false, error:
\* message}; the loop is never aborted, a progress event is emitted for the
\* failed index, and every remaining index is attempted.
C8_FailureDoesNotAbort ==
  /\ lpc # "rejected"
  /\ lastResult.threw # "none" =>
       lastResult.value = [settled |-> "fulfilled", success |-> FALSE,
                           error |-> lastResult.threw]
  /\ returned - emitted \in {0, 1}
  /\ pc # "exited" => (returned = emitted + 1 <=> lpc = "returned")
  /\ (emitted >= 1 /\ emitted = returned) =>
       lastProgress = [current |-> lastResult.index, total |-> count,
                       success |-> lastResult.value.success,
                       error |-> lastResult.value.error]
  /\ emitted >= 1 => lastProgress.current = emitted
  /\ (lpc = "done" /\ ~isShuttingDown) => Len(attempts) = count /\ emitted = count

\* Launch 1 failed before a browser existed, and the loop still went through
\* every index and emitted every event.
C8_Witness ==
  /\ lpc = "done" /\ ~isShuttingDown
  /\ count >= 2 /\ Len(attempts) = count /\ emitted = count
  /\ browserState[1] = "none"
  /\ lastProgress.current = count

\* C9 as stated: whenever browser launch, navigation and injectMonitor have
\* succeeded, launchBrowser returns success: true.
C9_FailsOnlyBeforeProbe ==
  (returned >= 1 /\ ~lastResult.value.success) =>
    lastResult.threw \in {"chromium.launch", "newContext", "newPage", "goto",
                          "injectMonitor"}

\* C9, amended: launchBrowser returns success: false exactly when one of its
\* awaited calls before waitForPlayback throws (attemptPlay included); when
\* none throws the result is success: true, the session is tracked, and the
\* error is "Video not playing yet" exactly when playback was not confirmed.
C9_FailsOnlyBeforeWait ==
  returned >= 1 =>
    LET r == lastResult
    IN /\ r.value.success <=> r.threw = "none"
       /\ ~r.value.success =>
            /\ r.threw \in {"chromium.launch", "newContext", "newPage", "goto",
                            "injectMonitor", "attemptPlay"}
            /\ r.value.error = r.threw
       /\ r.value.success =>
            /\ r.value.error = (IF r.playing THEN "none" ELSE "Video not playing yet")
            /\ r.index \in Range(browsers) \cup Range(closeCalls)
            /\ r.index \in Range(pages) \cup Range(detachedPages)

\* Launch 2 failed in attemptPlay after launch 1 had returned success without
\* confirmed playback (no polling sweep has run to change the statistics).
C9_Witness ==
  /\ returned = 2 /\ lastResult.threw = "attemptPlay"
  /\ browsers = <<1>> /\ pages = <<1>>
  /\ healthTimer /\ ~healthCheckInterval
  /\ stats.launched = 1 /\ stats.healthy = 0 /\ stats.errors = 1

\* C10: every termination by an interrupt runs the teardown sweep exactly
\* once and prints the final summary before the process exits, with the
\* statistics in effect when the sweep finished.
C10_SummaryBeforeExit ==
  (pc = "exited" /\ exitedBy.sig # "none") =>
    /\ Len(closedReports) = 1
    /\ Len(summaries) = 1
    /\ summaries[1] = sweepEndStats

\* C11: calculateMaxBrowsers(d, b, m) is max(1, floor(d * m / b)), hence at
\* least 1 for every d > 0, b > 0 and m in (0, 1]; (100000, 2800, 0.8) gives
\* 28 and (1, 2800, 0.8) gives 1.
C11_AtLeastOneSession ==
  budget.stage = "calculated" =>
    LET d == budget.downloadKbps
        b == budget.streamBitrateKbps
        m == budget.margin
        n == budget.maxBrowsers.v
    IN /\ budget.maxBrowsers.t = "number" /\ ~budget.maxBrowsers.nan
       /\ n >= 1
       /\ n * 100 * b <= d * m \/ n = 1
       /\ (n + 1) * 100 * b > d * m
       /\ (d = 100000 /\ b = 2800 /\ m = 80) => n = 28
       /\ (d = 1 /\ b = 2800 /\ m = 80) => n = 1

\* The estimate that would floor to zero is raised to 1.
C11_Witness ==
  /\ budget.stage = "calculated"
  /\ budget.downloadKbps = 1 /\ budget.streamBitrateKbps = 2800 /\ budget.margin = 80
  /\ budget.maxBrowsers = Num(1)

\* A text that is an integer numeral, and the integer it denotes.
IsIntegerText(o) ==
  /\ o.defined
  /\ Unsigned(o.text) # <<>>
  /\ DigitsPrefixLen(Unsigned(o.text)) = Len(Unsigned(o.text))

IntegerOf(o) == Sign(o.text) * DecimalValue(Unsigned(o.text), Len(Unsigned(o.text)))

\* C12: an integer given by --max is the budget; without --max an integer
\* given by MAX_BROWSERS is the budget, 0 included; the bandwidth-derived
\* value is used only when neither was given.
C12_OverrideWins ==
  budget.stage = "chosen" =>
    /\ IsIntegerText(budget.flagMax) =>
         budget.maxBrowsers = Num(IntegerOf(budget.flagMax))
    /\ (~budget.flagMax.defined /\ IsIntegerText(budget.envMax)) =>
         budget.maxBrowsers = Num(IntegerOf(budget.envMax))
    /\ (~budget.flagMax.defined /\ ~budget.envMax.defined) =>
         budget.maxBrowsers.v >= 1

C14_NoUrlExitsFirst ==
  (streamUrl = "" /\ pc # "start") =>
    /\ pc = "exited" /\ exitCode = 1
    /\ speed.pc = "idle"
    /\ lpc = "idle" /\ attempts = <<>>
    /\ \A b \in 1..MaxCount : browserState[b] = "none"
    /\ ~healthTimer /\ ~healthCheckInterval /\ ticks = EmptyBag
    /\ exitedBy = NoHandler

C14_Witness ==
  /\ streamUrl = "" /\ pc = "exited" /\ exitCode = 1
  /\ attempts = <<>> /\ ~healthTimer

\* A polling sweep comes to its end: it writes the three counters and calls
\* the update callback.
SweepEnds == pc' = "running" /\ BagCardinality(ticks') < BagCardinality(ticks)

\* C15: once shutdown has been requested no polling tick replaces the
\* statistics or calls the update callback, a tick whose sweep was awaiting a
\* probe read at that moment included.
C15_NoPollingAfterShutdown ==
  [][isShuttingDown => ~SweepEnds]_vars

\* The probe reads a sweep has started (positions in the array it iterates)
\* and the number of them that have returned.
ReadsStarted(t) == 1..t.k

ReadsDone(t) == t.healthy + t.buffering + t.errors

\* C16: a sweep starts the reads of all tracked sessions at once; the read
\* of a session does not wait for the read of any other session.
C16_ReadsConcurrent ==
  [][\A t \in BagToSet(ticks') :
       CopiesIn(t, ticks') > CopiesIn(t, ticks) /\ ReadsDone(t) = 0 =>
         ReadsStarted(t) = 1..Len(pages')]_vars

\* C17: at most one polling sweep is in progress at any time.
C17_OneSweepAtATime == BagCardinality(ticks) <= 1

\* C18: the phases follow one another, Launching before Monitoring: a polling
\* tick runs only when the launch sequence has finished, never while a
\* launchBrowser call or a stagger delay of the sequence is pending.
C18_PollingAfterLaunch ==
  [][TickStarts => lpc \notin {"launch", "sleep"}]_vars

\* The class the rule of the sweep gives a probe read: healthy if the
\* snapshot is healthy, else errors if the read failed or the snapshot lists an
\* error, else buffering.
ClassByRule(read) ==
  IF /\ read.kind = "ok" /\ read.state.isPlaying
     /\ read.state.currentTime > read.state.lastTime /\ read.state.errors = <<>>
    THEN "healthy"
  ELSE IF read.kind # "ok" \/ read.state.errors # <<>> THEN "errors"
  ELSE "buffering"

\* Sweep t with one more session of the given class.
OneMore(t, class) ==
  [k |-> t.k,
   healthy |-> t.healthy + (IF class = "healthy" THEN 1 ELSE 0),
   buffering |-> t.buffering + (IF class = "buffering" THEN 1 ELSE 0),
   errors |-> t.errors + (IF class = "errors" THEN 1 ELSE 0)]

\* C19: every session a polling tick reads goes to exactly one of the three
\* counters, healthy, else errors, else buffering, by the rule; the sweep
\* starts from zero and at its end the three statistics are its own counts,
\* one per tracked session, not sums with the previous values.
C19_CountedOnceAndOverwritten ==
  [][/\ \A t \in BagToSet(ticks') :
          CopiesIn(t, ticks') > CopiesIn(t, ticks) /\ t.k = 1 => ReadsDone(t) = 0
     /\ (ticks' # ticks /\ BagCardinality(ticks') <= BagCardinality(ticks)) =>
          \E t \in BagToSet(ticks) :
            LET n == OneMore(t, ClassByRule(health'.read))
                others == ticks (-) SetToBag({t})
            IN \/ /\ t.k < Len(pages)
                  /\ ticks' = others (+) SetToBag({[n EXCEPT !.k = t.k + 1]})
                  /\ stats' = stats
               \/ /\ t.k = Len(pages)
                  /\ ticks' = others
                  /\ stats' = [launched |-> stats.launched, healthy |-> n.healthy,
                               buffering |-> n.buffering, errors |-> n.errors]
                  /\ n.healthy + n.buffering + n.errors = Len(pages)
     /\ (pages = <<>> /\ stats' # stats) =>
          stats' = [launched |-> stats.launched, healthy |-> 0, buffering |-> 0,
                    errors |-> 0]]_vars

\* A sweep over two sessions has ended: one failed read, one stalled session,
\* and the healthy count of the launches is gone.
C19_Witness ==
  /\ health.called /\ ticks = EmptyBag
  /\ Len(pages) = 2
  /\ stats = [launched |-> 2, healthy |-> 0, buffering |-> 1, errors |-> 1]

\* The three counters a polling tick writes.
Counters(st) == <<st.healthy, st.buffering, st.errors>>

\* C20: the counters healthy, buffering and errors never hold values of
\* different polling ticks: whenever a tick changes them, all three become
\* the counts of that one sweep in a single step; any other change is the
\* increment of one counter by a launch.
C20_CountersChangeTogether ==
  [][Counters(stats') # Counters(stats) =>
       \/ /\ LaunchStepThrows \/ LaunchWaitReturns
          /\ ticks' = ticks
          /\ stats'.healthy + stats'.buffering + stats'.errors
               = stats.healthy + stats.buffering + stats.errors + 1
       \/ /\ TickStarts /\ pages = <<>>
          /\ Counters(stats') = <<0, 0, 0>>
       \/ \E t \in BagToSet(ticks), class \in {"healthy", "buffering", "errors"} :
            /\ ticks' = ticks (-) SetToBag({t})
            /\ Counters(stats') = Counters(OneMore(t, class))]_vars

\* A sweep has written its counts while another sweep and a launch are pending.
C20_Witness ==
  /\ stats.buffering = 1
  /\ stats.healthy + stats.buffering + stats.errors = Len(pages)
  /\ BagCardinality(ticks) >= 1
  /\ lpc = "launch"

\* The browsers among the first n that close() was called on and that are
\* closed.
ClosedAmong(n) == {k \in 1..n : browserState[closeCalls[k]] = "closed"}

\* C21: shutdown() calls close on every tracked browser, one after another in
\* tracking order; a close that throws does not stop the sweep; the reported
\* count is the number of closes that succeeded, at most the number tracked;
\* and the monitoring interval is cleared before the first close.
C21_TeardownSweep ==
  /\ [](/\ sdPc = "sweep" =>
             /\ sdIdx \in 1..Len(browsers)
             /\ closeCalls = SubSeq(browsers, 1, sdIdx)
             /\ closed = Cardinality(ClosedAmong(sdIdx - 1))
        /\ sdPc = "done" =>
             /\ closeCalls = detachedPages
             /\ closedReports = <<[closed |-> Cardinality(ClosedAmong(Len(closeCalls))),
                                   total |-> Len(closeCalls)]>>)
  /\ [][(closeCalls = <<>> /\ closeCalls' # <<>>) =>
          isShuttingDown' /\ ~healthCheckInterval']_vars

\* Two browsers were tracked: the close of the first threw, the second was
\* still closed, and the report says 1 of 2.
C21_Witness ==
  /\ sdPc = "done" /\ Len(closeCalls) = 2
  /\ browserState[closeCalls[1]] = "open"
  /\ browserState[closeCalls[2]] = "closed"
  /\ closedReports = <<[closed |-> 1, total |-> 2]>>

\* A step in which a probe read of some sweep returns.
ReadStep == ticks' # ticks /\ BagCardinality(ticks') <= BagCardinality(ticks)

\* C22: a session whose probe cannot be read during a tick is counted in
\* errors for that tick and stays tracked; the sweep goes on to every session
\* after it and ends only past the last one; polling stays on, and the next
\* tick samples every tracked session again, from the first.
C22_UnreadableCountedNotDropped ==
  [][/\ (ReadStep /\ health'.read.kind # "ok") =>
          /\ pages' = pages /\ browsers' = browsers
          /\ healthCheckInterval'
          /\ \E t \in BagToSet(ticks) :
               LET others == ticks (-) SetToBag({t})
               IN \/ /\ t.k < Len(pages)
                     /\ ticks' = others (+)
                          SetToBag({[t EXCEPT !.k = @ + 1, !.errors = @ + 1]})
                  \/ /\ t.k = Len(pages)
                     /\ ticks' = others
                     /\ stats'.errors = t.errors + 1
     /\ \A t \in BagToSet(ticks') :
          CopiesIn(t, ticks') > CopiesIn(t, ticks) /\ ~ReadStep =>
            t.k = 1 /\ pages' = pages]_vars

\* The read of the first of two sessions has failed: it is counted in errors
\* and the same sweep is at the second session.
C22_Witness ==
  /\ Len(pages) = 2
  /\ health.called /\ health.read.kind = "throws"
  /\ ticks = SetToBag({[k |-> 2, healthy |-> 0, buffering |-> 0, errors |-> 1]})

\* C23: getHealth returns a record for every outcome of the probe read, it
\* never throws: an absent state gives healthy = false with errors
\* ["Monitor not initialized"], a read that throws gives healthy = false with
\* the exception's message as the only error; errors is non-empty in both.
C23_GetHealthNeverThrows ==
  health.called =>
    /\ {"healthy", "errors", "isPlaying", "currentTime"} \subseteq DOMAIN health.out
    /\ health.read.kind = "absent" =>
         /\ health.out.healthy = FALSE
         /\ health.out.errors = <<"Monitor not initialized">>
    /\ health.read.kind = "throws" =>
         /\ health.out.healthy = FALSE
         /\ health.out.errors = <<health.read.message>>
    /\ health.read.kind # "ok" => Len(health.out.errors) > 0

\* getHealth was called on a page whose evaluate threw.
C23_Witness ==
  /\ health.called /\ health.read.kind = "throws"
  /\ health.out.errors = <<"Target closed">>

\* C24: a failed probe read is not sticky.  When the last sweep counted every
\* session under errors and the last read failed, a later sweep that has found
\* the sessions before the last one healthy can end with every session
\* counted healthy and none under errors: the read of the last session can
\* return a playing, advancing, error-free snapshot, and the statistics then
\* say so.
C24_ErrorNotSticky ==
  \A t \in BagToSet(ticks) :
    (/\ Len(pages) >= 1 /\ stats.errors = Len(pages)
     /\ health.called /\ health.read.kind # "ok"
     /\ t.k = Len(pages) /\ t.healthy = t.k - 1) =>
      ENABLED (/\ TickResumesObserved(t)
               /\ health'.read.kind = "ok" /\ health'.out.healthy
               /\ stats'.healthy = Len(pages) /\ stats'.errors = 0)

\* The only session was counted under errors by a sweep whose read failed,
\* and the next sweep is reading it.
C24_Witness ==
  /\ Len(pages) = 1 /\ stats.errors = 1 /\ stats.healthy = 0
  /\ health.called /\ health.read.kind = "throws"
  /\ ticks = SetToBag({NewTick})

\* C25: launchBrowser appends to both tracked lists and adds exactly one to
\* launched if and only if it returns success: true, whether or not playback
\* was confirmed; when it returns success: false the lists and launched are
\* unchanged and only the errors counter is incremented.  No other step
\* appends to the lists or changes launched.
C25_TrackedIffSuccess ==
  [][/\ returned' = returned + 1 =>
          IF lastResult'.value.success
            THEN /\ browsers' = Append(browsers, lastResult'.index)
                 /\ pages' = Append(pages, lastResult'.index)
                 /\ stats'.launched = stats.launched + 1
                 /\ stats'.errors = stats.errors
            ELSE /\ browsers' = browsers /\ pages' = pages
                 /\ stats' = [stats EXCEPT !.errors = @ + 1]
     /\ (\/ Len(browsers') > Len(browsers) \/ Len(pages') > Len(pages)
         \/ stats'.launched # stats.launched) =>
          returned' = returned + 1 /\ lastResult'.value.success]_vars

\* A launch has returned success: true without confirmed playback, and the
\* session is tracked and counted as launched.
C25_Witness ==
  /\ lpc = "returned" /\ lastResult.value.success /\ ~lastResult.playing
  /\ browsers = <<lastResult.index>> /\ pages = <<lastResult.index>>
  /\ stats.launched = 1 /\ stats.healthy = 0

\* One progress event per launch attempt, sent after the attempt has returned
\* and before the next one starts, with the attempt's index and the budget.
OneEventPerAttempt ==
  /\ emitted <= returned /\ returned <= Len(attempts) /\ Len(attempts) <= emitted + 1
  /\ lpc = "returned" <=> emitted < returned
  /\ emitted > 0 =>
       /\ lastProgress.current = emitted /\ lastProgress.total = count
       /\ lpc # "returned" =>
            /\ lastProgress.current = lastResult.index
            /\ lastProgress.success = lastResult.value.success

\* C26: exactly one progress event is emitted per launch attempt, after the
\* attempt and before the next, with current = the index and total = the
\* budget; and the statistics the event carries keep the values they had when
\* it was sent, whatever later launches and polling ticks do.
C26_EventCarriesSnapshot ==
  /\ OneEventPerAttempt
  /\ carried.sent => CarriedStats = carried.then

\* C27: a stagger-delay wait starts only when a launch other than the last
\* has just returned and no shutdown has been requested, and a launch after
\* the first starts only when such a wait is over: exactly one wait between
\* launch i and launch i + 1, none after launch N, none started once a
\* shutdown is requested.
C27_OneWaitBetweenLaunches ==
  [][/\ (lpc # "sleep" /\ lpc' = "sleep") =>
          /\ lpc = "returned" /\ returned = i + 1
          /\ i + 1 < count
          /\ ~isShuttingDown
          /\ attempts' = attempts
     /\ (lpc = "returned" /\ lpc' \notin {"returned", "killed"}
           /\ i + 1 < count /\ ~isShuttingDown) => lpc' = "sleep"
     /\ Len(attempts') > Len(attempts) /\ Len(attempts) >= 1 =>
          /\ lpc = "sleep" /\ lpc' = "launch"
          /\ attempts' = Append(attempts, Len(attempts) + 1)
     /\ (lpc = "sleep" /\ lpc' \notin {"sleep", "killed"}) =>
          lpc' \in {"launch", "done"} /\ i' = i + 1]_vars

\* The first of two launches has returned and the loop is in the stagger
\* delay before the second.
C27_Witness ==
  /\ lpc = "sleep" /\ count = 2 /\ i = 0 /\ returned = 1 /\ emitted = 1
  /\ attempts = <<1>> /\ ~isShuttingDown

\* C28: every estimate runSpeedTest returns, measured or entered by hand, has
\* downloadKbps > 0: a positive rate is never rounded down to 0.
C28_EstimatePositive ==
  speed.pc = "resolved" => speed.out.downloadKbps > 0

\* C29: a sample of the in-page probe sets lastTime to the previous
\* currentTime, currentTime to the video's position, readyState to the
\* element's, and isPlaying to (not paused and not ended and readyState > 2),
\* whatever the playing and pause events left in it, and nothing else writes
\* the two times; without a video element at install time the error "No video
\* element found" is recorded, no listener and no sampler is installed, and
\* the state never changes afterwards, even when an element appears later.
C29_SamplerAndNoVideo ==
  [][/\ (~probe.installed /\ probe'.installed) =>
          /\ probe'.listening <=> probe'.hasVideo
          /\ probe'.state = [InitialHealth EXCEPT
                               !.errors = IF probe'.hasVideo THEN <<>>
                                          ELSE <<"No video element found">>]
     /\ (probe.installed /\ probe.listening) =>
          /\ probe'.listening
          /\ (\/ probe'.state.currentTime # probe.state.currentTime
              \/ probe'.state.lastTime # probe.state.lastTime
              \/ probe'.state.readyState # probe.state.readyState) =>
               /\ probe'.state.lastTime = probe.state.currentTime
               /\ probe'.state.currentTime = probe.video.currentTime
               /\ probe'.state.readyState = probe.video.readyState
               /\ probe'.state.isPlaying =
                    (/\ ~probe.video.paused /\ ~probe.video.ended
                     /\ probe.video.readyState > 2)
               /\ probe'.state.errors = probe.state.errors
               /\ probe'.state.stalledCount = probe.state.stalledCount
               /\ probe'.state.bufferingCount = probe.state.bufferingCount
     /\ (probe.installed /\ ~probe.listening) =>
          /\ ~probe'.listening
          /\ probe'.state = probe.state
          /\ probe.state.errors = <<"No video element found">>]_vars

\* Two samples were taken of a playing element: the times are its last two
\* positions and the flag is the sampler's.
C29_Witness ==
  /\ probe.installed /\ probe.listening
  /\ probe.state.currentTime = 2 /\ probe.state.lastTime = 1
  /\ probe.state.isPlaying /\ probe.state.readyState = 3
  /\ probe.video.readyState = 3 /\ ~probe.video.paused /\ ~probe.video.ended

\* The page had no video element when the probe was installed; one appeared
\* later, and the state is still the one recorded at install time.
C29_WitnessNoVideo ==
  /\ probe.installed /\ ~probe.listening /\ probe.hasVideo
  /\ probe.state = [InitialHealth EXCEPT !.errors = <<"No video element found">>]

\* C30: before a shutdown is requested, launched is the length of the tracked
\* browser list and of the tracked page list; the steps of a polling tick
\* leave launched and both lists unchanged.
C30_LaunchedIsTracked ==
  /\ [](~isShuttingDown =>
          stats.launched = Len(browsers) /\ stats.launched = Len(pages))
  /\ [][ticks' # ticks /\ pc' = "running" =>
          /\ stats'.launched = stats.launched
          /\ browsers' = browsers /\ pages' = pages]_vars

\* Two sessions are tracked, no shutdown was requested, and a polling tick
\* has written the statistics.
C30_Witness ==
  /\ ~isShuttingDown /\ Len(browsers) = 2 /\ Len(pages) = 2 /\ stats.launched = 2
  /\ ticks = EmptyBag /\ stats.healthy + stats.buffering + stats.errors = 2
  /\ stats.errors = 1

\* C31: in every reachable state, whatever the interleaving of launches,
\* overlapping polling sweeps and the shutdown, healthy + buffering is at most
\* launched.
C31_PlayingWithinLaunched ==
  stats.healthy + stats.buffering <= stats.launched

\* Two sweeps overlap while a shutdown is under way, and the statistics a
\* sweep wrote account for both launched sessions: one healthy, one
\* buffering.
C31_Witness ==
  /\ isShuttingDown /\ BagCardinality(ticks) = 2
  /\ stats.launched = 2 /\ stats.healthy = 1 /\ stats.buffering = 1

\* C32: when launchBrowser returns, the browser process it started, if any,
\* is tracked in the browser list or already closed; a failure after
\* chromium.launch leaves no browser open and untracked.
C32_StartedIsTrackedOrClosed ==
  [][returned' = returned + 1 =>
       LET b == lastResult'.index
       IN browserState'[b] = "open" => b \in Range(browsers')]_vars

====
